---------------------------- MODULE Spec2Model ----------------------------
(***************************************************************************)
(* State-machine model of the Telegram expense tracker bot                 *)
(* (telegram-expense-tracker/expense_bot.py).                              *)
(*                                                                         *)
(* A text is a sequence of one-character strings, so that strip(),         *)
(* upper(), lower(), substring tests and the regular expressions of the    *)
(* bot are computed character by character.  An amount (a Python float)    *)
(* is the record [whole, frac]: the integer part and the decimal digits    *)
(* after the point with trailing zeros removed, which identifies the       *)
(* decimal value exactly; NoAmount stands for None.                        *)
(***************************************************************************)
EXTENDS Integers, Sequences, FiniteSets, TLC

VARIABLES
    sheet,               \* the ledger: rows of sheet1, row 1 is the header
    processed_messages,  \* context.bot_data['processed_messages']
    transactions,        \* context.bot_data['transactions']: message id -> record
    user_data,           \* context.user_data of every user
    nextId,              \* the message id the transport assigns next
    last                 \* the update handled last, with the reply it got

vars == <<sheet, processed_messages, transactions, user_data, nextId, last>>

---------------------------------------------------------------------------
(* Characters and Python string methods                                    *)

UPPERCASE == <<"A", "B", "C", "D", "E", "F", "G", "H", "I", "J", "K", "L", "M",
               "N", "O", "P", "Q", "R", "S", "T", "U", "V", "W", "X", "Y", "Z">>

LOWERCASE == <<"a", "b", "c", "d", "e", "f", "g", "h", "i", "j", "k", "l", "m",
               "n", "o", "p", "q", "r", "s", "t", "u", "v", "w", "x", "y", "z">>

DIGITS == <<"0", "1", "2", "3", "4", "5", "6", "7", "8", "9">>

IsDigit(c) == \E i \in 1..Len(DIGITS) : DIGITS[i] = c

DigitValue(c) == (CHOOSE i \in 1..Len(DIGITS) : DIGITS[i] = c) - 1

\* \w of the re module: letters, digits and the underscore
IsWordChar(c) ==
    \/ IsDigit(c)
    \/ c = "_"
    \/ \E i \in 1..Len(LOWERCASE) : LOWERCASE[i] = c \/ UPPERCASE[i] = c

IsSpace(c) == c = " "

char_lower(c) ==
    IF \E i \in 1..Len(UPPERCASE) : UPPERCASE[i] = c
    THEN LOWERCASE[CHOOSE i \in 1..Len(UPPERCASE) : UPPERCASE[i] = c]
    ELSE c

char_upper(c) ==
    IF \E i \in 1..Len(LOWERCASE) : LOWERCASE[i] = c
    THEN UPPERCASE[CHOOSE i \in 1..Len(LOWERCASE) : LOWERCASE[i] = c]
    ELSE c

str_lower(s) == [i \in 1..Len(s) |-> char_lower(s[i])]

str_upper(s) == [i \in 1..Len(s) |-> char_upper(s[i])]

\* str.strip(): leading and trailing whitespace removed
str_strip(s) ==
    LET inner == {i \in 1..Len(s) : ~IsSpace(s[i])}
    IN  IF inner = {} THEN <<>>
        ELSE LET first == CHOOSE i \in inner : \A j \in inner : i <= j
                 final == CHOOSE i \in inner : \A j \in inner : j <= i
             IN  SubSeq(s, first, final)

\* the Python test `sub in s`
str_contains(s, sub) ==
    \E i \in 1..(Len(s) - Len(sub) + 1) : SubSeq(s, i, i + Len(sub) - 1) = sub

---------------------------------------------------------------------------
(* Amounts                                                                 *)

NoAmount == [whole |-> -1, frac |-> <<>>]

RECURSIVE DigitsToNat(_)
DigitsToNat(ds) ==
    IF ds = <<>> THEN 0
    ELSE 10 * DigitsToNat(SubSeq(ds, 1, Len(ds) - 1)) + DigitValue(ds[Len(ds)])

RECURSIVE StripTrailingZeros(_)
StripTrailingZeros(ds) ==
    IF ds # <<>> /\ ds[Len(ds)] = "0"
    THEN StripTrailingZeros(SubSeq(ds, 1, Len(ds) - 1))
    ELSE ds

\* float(token) for a token matched by \d+\.?\d*
float_of(token) ==
    LET dots  == {i \in 1..Len(token) : token[i] = "."}
        point == IF dots = {} THEN Len(token) + 1 ELSE CHOOSE i \in dots : TRUE
    IN  [whole |-> DigitsToNat(SubSeq(token, 1, point - 1)),
         frac  |-> StripTrailingZeros(SubSeq(token, point + 1, Len(token)))]

\* the truth value of an amount in `if new_amount`: None and 0.0 are false
Truthy(amount) == amount # NoAmount /\ amount # [whole |-> 0, frac |-> <<>>]

RECURSIVE NatToDigits(_)
NatToDigits(n) ==
    IF n < 10 THEN <<DIGITS[n + 1]>>
    ELSE NatToDigits(n \div 10) \o <<DIGITS[(n % 10) + 1]>>

\* str(int(amount))
str_int(amount) == NatToDigits(amount.whole)

---------------------------------------------------------------------------
(* Regular expressions of the bot                                          *)

\* end of the longest run of digits that starts at position i
RECURSIVE DigitRunEnd(_, _)
DigitRunEnd(s, i) ==
    IF i + 1 <= Len(s) /\ IsDigit(s[i + 1]) THEN DigitRunEnd(s, i + 1) ELSE i

\* end of the match of \d+\.?\d* that starts at the digit at position i
NumberEnd(s, i) ==
    LET e1 == DigitRunEnd(s, i)
        e2 == IF e1 + 1 <= Len(s) /\ s[e1 + 1] = "." THEN e1 + 1 ELSE e1
    IN  IF e2 + 1 <= Len(s) /\ IsDigit(s[e2 + 1]) THEN DigitRunEnd(s, e2 + 1) ELSE e2

\* re.findall(r'\d+\.?\d*', s): the matches from left to right
RECURSIVE FindNumbersFrom(_, _)
FindNumbersFrom(s, i) ==
    IF i > Len(s) THEN <<>>
    ELSE IF IsDigit(s[i])
         THEN <<SubSeq(s, i, NumberEnd(s, i))>> \o FindNumbersFrom(s, NumberEnd(s, i) + 1)
         ELSE FindNumbersFrom(s, i + 1)

re_findall_numbers(s) == FindNumbersFrom(s, 1)

\* re.sub(r'\d+\.?\d*', '', s)
RECURSIVE RemoveNumbersFrom(_, _)
RemoveNumbersFrom(s, i) ==
    IF i > Len(s) THEN <<>>
    ELSE IF IsDigit(s[i])
         THEN RemoveNumbersFrom(s, NumberEnd(s, i) + 1)
         ELSE <<s[i]>> \o RemoveNumbersFrom(s, i + 1)

re_sub_numbers(s) == RemoveNumbersFrom(s, 1)

\* the characters of the class of line 68, as the source file holds it; a
\* character that is not ASCII is written as its code point.  The class has
\* U+201A, U+00C7, U+03C0, '$', U+00A8, U+00AC, U+00A3 (the pound sign) and
\* ','; it has neither U+20B9 (the rupee sign) nor U+20AC (the euro sign)
CURRENCY_CHARS == {"u201a", "u00c7", "u03c0", "$", "u00a8", "u00ac", "u00a3", ","}

\* re.sub(r'\b' + old + r'\b', new, s) for a string `old` of digits
RECURSIVE SubWordFrom(_, _, _, _)
SubWordFrom(s, i, old, new) ==
    IF i > Len(s) THEN <<>>
    ELSE IF /\ i + Len(old) - 1 <= Len(s)
            /\ SubSeq(s, i, i + Len(old) - 1) = old
            /\ (i = 1 \/ ~IsWordChar(s[i - 1]))
            /\ (i + Len(old) > Len(s) \/ ~IsWordChar(s[i + Len(old)]))
         THEN new \o SubWordFrom(s, i + Len(old), old, new)
         ELSE <<s[i]>> \o SubWordFrom(s, i + 1, old, new)

re_sub_word(s, old, new) == SubWordFrom(s, 1, old, new)

---------------------------------------------------------------------------
(* Extractor and classifier                                                *)

CATEGORY_KEYWORDS ==
    << [category |-> "Food", keywords |-> <<
           <<"l", "u", "n", "c", "h">>,
           <<"d", "i", "n", "n", "e", "r">>,
           <<"b", "r", "e", "a", "k", "f", "a", "s", "t">>,
           <<"f", "o", "o", "d">>,
           <<"r", "e", "s", "t", "a", "u", "r", "a", "n", "t">>,
           <<"c", "a", "f", "e">>,
           <<"c", "o", "f", "f", "e", "e">>,
           <<"s", "n", "a", "c", "k">>,
           <<"m", "e", "a", "l">>,
           <<"e", "a", "t">>,
           <<"o", "m", "e", "l", "e", "t", "t", "e">>,
           <<"o", "m", "l", "e", "t", "t", "e">>,
           <<"j", "u", "i", "c", "e">>,
           <<"t", "e", "a">>
        >>],
       [category |-> "Transport", keywords |-> <<
           <<"u", "b", "e", "r">>,
           <<"t", "a", "x", "i">>,
           <<"b", "u", "s">>,
           <<"m", "e", "t", "r", "o">>,
           <<"f", "u", "e", "l">>,
           <<"p", "e", "t", "r", "o", "l">>,
           <<"p", "a", "r", "k", "i", "n", "g">>,
           <<"o", "l", "a">>,
           <<"a", "u", "t", "o">>,
           <<"t", "r", "a", "i", "n">>,
           <<"f", "l", "i", "g", "h", "t">>
        >>],
       [category |-> "Groceries", keywords |-> <<
           <<"g", "r", "o", "c", "e", "r", "y">>,
           <<"g", "r", "o", "c", "e", "r", "i", "e", "s">>,
           <<"v", "e", "g", "e", "t", "a", "b", "l", "e", "s">>,
           <<"f", "r", "u", "i", "t", "s">>,
           <<"s", "u", "p", "e", "r", "m", "a", "r", "k", "e", "t">>,
           <<"v", "e", "g", "g", "i", "e", "s">>,
           <<"m", "a", "r", "k", "e", "t">>
        >>],
       [category |-> "Shopping", keywords |-> <<
           <<"s", "h", "o", "p", "p", "i", "n", "g">>,
           <<"c", "l", "o", "t", "h", "e", "s">>,
           <<"s", "h", "o", "e", "s">>,
           <<"a", "m", "a", "z", "o", "n">>,
           <<"f", "l", "i", "p", "k", "a", "r", "t">>,
           <<"s", "h", "o", "p">>,
           <<"p", "u", "r", "c", "h", "a", "s", "e">>
        >>],
       [category |-> "Entertainment", keywords |-> <<
           <<"m", "o", "v", "i", "e">>,
           <<"n", "e", "t", "f", "l", "i", "x">>,
           <<"s", "u", "b", "s", "c", "r", "i", "p", "t", "i", "o", "n">>,
           <<"g", "a", "m", "e">>,
           <<"e", "n", "t", "e", "r", "t", "a", "i", "n", "m", "e", "n", "t">>,
           <<"s", "p", "o", "t", "i", "f", "y">>,
           <<"p", "r", "i", "m", "e">>
        >>],
       [category |-> "Bills", keywords |-> <<
           <<"e", "l", "e", "c", "t", "r", "i", "c", "i", "t", "y">>,
           <<"w", "a", "t", "e", "r">>,
           <<"i", "n", "t", "e", "r", "n", "e", "t">>,
           <<"p", "h", "o", "n", "e">>,
           <<"b", "i", "l", "l">>,
           <<"r", "e", "n", "t">>,
           <<"e", "m", "i">>,
           <<"r", "e", "c", "h", "a", "r", "g", "e">>
        >>],
       [category |-> "Health", keywords |-> <<
           <<"m", "e", "d", "i", "c", "i", "n", "e">>,
           <<"d", "o", "c", "t", "o", "r">>,
           <<"h", "o", "s", "p", "i", "t", "a", "l">>,
           <<"p", "h", "a", "r", "m", "a", "c", "y">>,
           <<"h", "e", "a", "l", "t", "h">>,
           <<"g", "y", "m">>,
           <<"m", "e", "d", "i", "c", "a", "l">>,
           <<"h", "a", "i", "r", "c", "u", "t">>
        >>] >>

\* a variant that reads a minus sign in front of the number
extract_amount_signed(text) ==
    LET text_cleaned == SelectSeq(text, LAMBDA c : c \notin CURRENCY_CHARS)
        numbers      == re_findall_numbers(text_cleaned)
        digits       == {i \in 1..Len(text_cleaned) : IsDigit(text_cleaned[i])}
        first        == CHOOSE i \in digits : \A j \in digits : i <= j
    IN  IF numbers = <<>> THEN NoAmount
        ELSE IF first > 1 /\ text_cleaned[first - 1] = "-"
             THEN [whole |-> 0 - float_of(numbers[1]).whole, frac |-> float_of(numbers[1]).frac]
             ELSE float_of(numbers[1])

extract_amount(text) ==
    LET text_cleaned == SelectSeq(text, LAMBDA c : c \notin CURRENCY_CHARS)
        numbers      == re_findall_numbers(text_cleaned)
    IN  IF numbers # <<>> THEN float_of(numbers[1]) ELSE NoAmount

\* a variant that compares the text as typed, without lower()
detect_category_as_typed(text) ==
    LET hits == {k \in 1..Len(CATEGORY_KEYWORDS) :
                    \E j \in 1..Len(CATEGORY_KEYWORDS[k].keywords) :
                        str_contains(text, CATEGORY_KEYWORDS[k].keywords[j])}
    IN  IF hits = {} THEN "Other"
        ELSE CATEGORY_KEYWORDS[CHOOSE k \in hits : \A h \in hits : k <= h].category

detect_category(text) ==
    LET text_lower == str_lower(text)
        hits == {k \in 1..Len(CATEGORY_KEYWORDS) :
                    \E j \in 1..Len(CATEGORY_KEYWORDS[k].keywords) :
                        str_contains(text_lower, CATEGORY_KEYWORDS[k].keywords[j])}
    IN  IF hits = {} THEN "Other"
        ELSE CATEGORY_KEYWORDS[CHOOSE k \in hits : \A h \in hits : k <= h].category

---------------------------------------------------------------------------
(* The ledger (sheet1 of the spreadsheet)                                  *)
(*                                                                         *)
(* A row holds the Timestamp, Category, Amount and Message columns; the    *)
(* Date column is the day of the timestamp.  The clock of the model is the *)
(* counter of message ids: a row written while the id counter stands at n  *)
(* has timestamp n, and the rows an earlier run left have timestamps below *)
(* 1.  The parameter `fail` of a ledger function is                        *)
(* the number of the remote call that raises (0: none does); the calls are *)
(* numbered in the order the function makes them.                          *)

\* the header row: its cells are the column titles, its Amount is no number
HEADER_ROW ==
    [timestamp |-> 0, category |-> "Category", amount |-> NoAmount,
     message   |-> <<"M", "e", "s", "s", "a", "g", "e">>]

NoCategory == "None"

Row(timestamp, amount, category, message) ==
    [timestamp |-> timestamp, category |-> category, amount |-> amount, message |-> message]

\* sheet.delete_rows(row_number)
delete_rows(sh, row_number) ==
    IF row_number > Len(sh) THEN sh
    ELSE SubSeq(sh, 1, row_number - 1) \o SubSeq(sh, row_number + 1, Len(sh))

\* sheet.get_all_records(): the rows below the header
get_all_records(sh) == SubSeq(sh, 2, Len(sh))

Failed(fail, calls) == fail \in 1..calls

\* `now` is datetime.now()
add_expense_to_sheet(sh, amount, category, message, fail, now) ==
    IF Failed(fail, 3)
    THEN [ok |-> FALSE, sheet |-> sh]
    ELSE [ok |-> TRUE, sheet |-> Append(sh, Row(now, amount, category, message))]

Max(a, b) == IF a >= b THEN a ELSE b

\* a variant that lists the first `limit` records instead of the last
get_recent_transactions_oldest(sh, limit, fail) ==
    IF Failed(fail, 3) THEN <<>>
    ELSE LET records    == get_all_records(sh)
             total_rows == Len(records)
             shown      == IF total_rows < limit THEN total_rows ELSE limit
         IN  [k \in 1..shown |->
                 [row      |-> k + 1,
                  category |-> records[k].category,
                  amount   |-> records[k].amount,
                  message  |-> records[k].message]]

get_recent_transactions(sh, limit, fail) ==
    IF Failed(fail, 3) THEN <<>>
    ELSE LET records     == get_all_records(sh)
             total_rows  == Len(records)
             start_index == Max(0, total_rows - limit)
         IN  [k \in 1..(total_rows - start_index) |->
                 LET i == start_index + k - 1
                 IN  [row      |-> i + 2,
                      category |-> records[i + 1].category,
                      amount   |-> records[i + 1].amount,
                      message  |-> records[i + 1].message]]

\* a variant that takes the row number as an index from 0 and checks nothing
delete_transaction_by_row_from_zero(sh, row_number, fail) ==
    IF Failed(fail, 2) THEN [ok |-> FALSE, result |-> "Error", sheet |-> sh]
    ELSE IF fail = 3 THEN [ok |-> FALSE, result |-> "Row not found", sheet |-> sh]
    ELSE IF fail = 4 THEN [ok |-> FALSE, result |-> "Error", sheet |-> sh]
    ELSE [ok |-> TRUE, result |-> "Deleted", sheet |-> delete_rows(sh, row_number - 1)]

delete_transaction_by_row(sh, row_number, fail) ==
    IF Failed(fail, 2) THEN [ok |-> FALSE, result |-> "Error", sheet |-> sh]
    ELSE IF row_number < 2 THEN [ok |-> FALSE, result |-> "Invalid row number", sheet |-> sh]
    ELSE IF fail = 3 THEN [ok |-> FALSE, result |-> "Row not found", sheet |-> sh]
    ELSE IF fail = 4 THEN [ok |-> FALSE, result |-> "Error", sheet |-> sh]
    ELSE [ok |-> TRUE, result |-> "Deleted", sheet |-> delete_rows(sh, row_number)]

\* a variant that scans from the oldest record: the lowest matching index
ScanRecordsOldestFirst(records, i, amount, category, message) ==
    LET hits == {j \in 0..i : /\ records[j + 1].amount = amount
                              /\ records[j + 1].category = category
                              /\ records[j + 1].message = message}
    IN  IF hits = {} THEN -1 ELSE CHOOSE j \in hits : \A h \in hits : j <= h

\* the loop `for i in range(len(records) - 1, -1, -1)`: the index (from 0) of
\* the first record, going down from i, that matches; -1 when none does
RECURSIVE ScanRecords(_, _, _, _, _)
ScanRecords(records, i, amount, category, message) ==
    IF i < 0 THEN -1
    ELSE IF /\ records[i + 1].amount = amount
            /\ records[i + 1].category = category
            /\ records[i + 1].message = message
         THEN i
         ELSE ScanRecords(records, i - 1, amount, category, message)

find_and_delete_transaction(sh, amount, category, message, fail) ==
    IF Failed(fail, 3) THEN [ok |-> FALSE, result |-> "Error", sheet |-> sh]
    ELSE LET records == get_all_records(sh)
             i == ScanRecords(records, Len(records) - 1, amount, category, message)
         IN  IF i < 0
             THEN [ok |-> FALSE, result |-> "Transaction not found", sheet |-> sh]
             ELSE IF fail = 4
                  THEN [ok |-> FALSE, result |-> "Error", sheet |-> sh]
                  ELSE [ok |-> TRUE, result |-> "Deleted", sheet |-> delete_rows(sh, i + 2)]

delete_all_transactions(sh, fail) ==
    IF Failed(fail, 3) THEN [ok |-> FALSE, count |-> 0, sheet |-> sh]
    ELSE LET transaction_count == Len(sh) - 1
         IN  IF transaction_count <= 0
             THEN [ok |-> TRUE, count |-> 0, sheet |-> sh]
             ELSE IF fail = 4
                  THEN [ok |-> FALSE, count |-> 0, sheet |-> sh]
                  ELSE [ok |-> TRUE, count |-> transaction_count,
                        sheet |-> SubSeq(sh, 1, 1)]

\* the loop `for i in range(len(all_values) - 1, 0, -1)` of update_transaction:
\* the index (from 0) of the matching row, 0 when none matches
RECURSIVE ScanValues(_, _, _, _, _)
ScanValues(all_values, i, amount, category, message) ==
    IF i <= 0 THEN 0
    ELSE IF /\ all_values[i + 1].amount = amount
            /\ all_values[i + 1].category = category
            /\ all_values[i + 1].message = message
         THEN i
         ELSE ScanValues(all_values, i - 1, amount, category, message)

\* a variant that undoes the cells already written when a later write fails
update_transaction_rollback(sh, amount, category, message, new_amount, new_category, fail) ==
    IF fail = 1 THEN [ok |-> FALSE, result |-> "Failed to connect to Google Sheets", sheet |-> sh,
                      amount_changed |-> FALSE, category_changed |-> FALSE]
    ELSE IF Failed(fail, 3) THEN [ok |-> FALSE, result |-> "Error", sheet |-> sh,
                                  amount_changed |-> FALSE, category_changed |-> FALSE]
    ELSE
    LET i == ScanValues(sh, Len(sh) - 1, amount, category, message)
    IN  IF i = 0
        THEN [ok |-> FALSE, result |-> "Transaction not found", sheet |-> sh,
              amount_changed |-> FALSE, category_changed |-> FALSE]
        ELSE
        LET row_number       == i + 1
            old_amount       == sh[row_number].amount
            old_category     == sh[row_number].category
            old_message      == sh[row_number].message
            amount_changed   == new_amount # NoAmount /\ new_amount # old_amount
            category_changed == new_category # NoCategory /\ new_category # old_category
            new_message      == IF amount_changed
                                THEN re_sub_word(old_message, str_int(old_amount), str_int(new_amount))
                                ELSE old_message
            \* the update_cell calls in the order they are made, as <<column, value>>
            writes == (IF amount_changed THEN <<<<4, new_amount>>>> ELSE <<>>)
                   \o (IF amount_changed /\ new_message # old_message
                       THEN <<<<5, new_message>>>> ELSE <<>>)
                   \o (IF category_changed THEN <<<<3, new_category>>>> ELSE <<>>)
            done   == IF fail >= 4 /\ fail - 4 < Len(writes) THEN fail - 4 ELSE Len(writes)
            Wrote(col) == \E k \in 1..done : writes[k][1] = col
            new_row == [timestamp |-> sh[row_number].timestamp,
                        category |-> IF Wrote(3) THEN new_category ELSE old_category,
                        amount   |-> IF Wrote(4) THEN new_amount ELSE old_amount,
                        message  |-> IF Wrote(5) THEN new_message ELSE old_message]
        IN  IF ~amount_changed /\ ~category_changed
            THEN [ok |-> FALSE, result |-> "No changes detected", sheet |-> sh,
                  amount_changed |-> FALSE, category_changed |-> FALSE]
            ELSE [ok |-> done = Len(writes),
                  result |-> IF done = Len(writes) THEN "Updated" ELSE "Error",
                  sheet |-> IF done = Len(writes) THEN [sh EXCEPT ![row_number] = new_row]
                                                  ELSE sh,
                  amount_changed |-> amount_changed,
                  category_changed |-> category_changed]

update_transaction(sh, amount, category, message, new_amount, new_category, fail) ==
    IF fail = 1 THEN [ok |-> FALSE, result |-> "Failed to connect to Google Sheets", sheet |-> sh,
                      amount_changed |-> FALSE, category_changed |-> FALSE]
    ELSE IF Failed(fail, 3) THEN [ok |-> FALSE, result |-> "Error", sheet |-> sh,
                                  amount_changed |-> FALSE, category_changed |-> FALSE]
    ELSE
    LET i == ScanValues(sh, Len(sh) - 1, amount, category, message)
    IN  IF i = 0
        THEN [ok |-> FALSE, result |-> "Transaction not found", sheet |-> sh,
              amount_changed |-> FALSE, category_changed |-> FALSE]
        ELSE
        LET row_number       == i + 1
            old_amount       == sh[row_number].amount
            old_category     == sh[row_number].category
            old_message      == sh[row_number].message
            amount_changed   == new_amount # NoAmount /\ new_amount # old_amount
            category_changed == new_category # NoCategory /\ new_category # old_category
            new_message      == IF amount_changed
                                THEN re_sub_word(old_message, str_int(old_amount), str_int(new_amount))
                                ELSE old_message
            \* the update_cell calls in the order they are made, as <<column, value>>
            writes == (IF amount_changed THEN <<<<4, new_amount>>>> ELSE <<>>)
                   \o (IF amount_changed /\ new_message # old_message
                       THEN <<<<5, new_message>>>> ELSE <<>>)
                   \o (IF category_changed THEN <<<<3, new_category>>>> ELSE <<>>)
            done   == IF fail >= 4 /\ fail - 4 < Len(writes) THEN fail - 4 ELSE Len(writes)
            Wrote(col) == \E k \in 1..done : writes[k][1] = col
            new_row == [timestamp |-> sh[row_number].timestamp,
                        category |-> IF Wrote(3) THEN new_category ELSE old_category,
                        amount   |-> IF Wrote(4) THEN new_amount ELSE old_amount,
                        message  |-> IF Wrote(5) THEN new_message ELSE old_message]
        IN  IF ~amount_changed /\ ~category_changed
            THEN [ok |-> FALSE, result |-> "No changes detected", sheet |-> sh,
                  amount_changed |-> FALSE, category_changed |-> FALSE]
            ELSE [ok |-> done = Len(writes),
                  result |-> IF done = Len(writes) THEN "Updated" ELSE "Error",
                  sheet |-> [sh EXCEPT ![row_number] = new_row],
                  amount_changed |-> amount_changed,
                  category_changed |-> category_changed]

---------------------------------------------------------------------------
(* The texts users send in the modelled runs                               *)

TEXT_LUNCH_250 == <<"l", "u", "n", "c", "h", " ", "2", "5", "0">>

TEXT_UBER_300 == <<"u", "b", "e", "r", " ", "3", "0", "0">>

TEXT_300 == <<"3", "0", "0">>

TEXT_UBER == <<"u", "b", "e", "r">>

TEXT_ZERO == <<"0">>

TEXT_CONFIRM == <<"C", "O", "N", "F", "I", "R", "M", " ", "D", "E", "L", "E", "T", "E", " ", "A", "L", "L">>

TEXT_CONFIRM_LOWER == <<" ", "c", "o", "n", "f", "i", "r", "m", " ", "d", "e", "l", "e", "t", "e", " ", "a", "l", "l", " ">>

TEXT_NO == <<"n", "o">>

TEXT_DELETE == <<"D", "e", "l", "e", "t", "e">>

TEXT_MINUS_50_TAXI == <<"-", "5", "0", " ", "t", "a", "x", "i">>

Texts ==
    {TEXT_LUNCH_250, TEXT_UBER_300, TEXT_300, TEXT_UBER, TEXT_ZERO,
     TEXT_CONFIRM, TEXT_CONFIRM_LOWER, TEXT_NO, TEXT_DELETE, TEXT_MINUS_50_TAXI}

\* extract_amount and detect_category of the texts above, computed once
TextTable ==
    [t \in Texts |-> [amount |-> extract_amount(t), category |-> detect_category(t)]]

amount_of(text) ==
    IF text \in DOMAIN TextTable THEN TextTable[text].amount ELSE extract_amount(text)

category_of(text) ==
    IF text \in DOMAIN TextTable THEN TextTable[text].category ELSE detect_category(text)

---------------------------------------------------------------------------
(* Dedup cache                                                             *)

PROCESSED_LIMIT == 100

PROCESSED_KEEP == 100

\* the sets left when k elements are dropped from S
RECURSIVE DropAny(_, _)
DropAny(S, k) ==
    IF k <= 0 THEN {S}
    ELSE UNION {DropAny(S \ {d}, k - 1) : d \in S}

\* a variant without the cleanup of lines 548-550
cleanup_processed_never(processed) == {processed}

\* set(list(processed)[-100:]) when the set holds more than 100 identifiers:
\* the list is in the iteration order of the set, which Python leaves open,
\* so any choice of 100 identifiers may be the one kept
cleanup_processed(processed) ==
    IF Cardinality(processed) > PROCESSED_LIMIT
    THEN DropAny(processed, Cardinality(processed) - PROCESSED_KEEP)
    ELSE {processed}

---------------------------------------------------------------------------
(* Updates and replies                                                     *)

NoReplyTo == 0

CONFIRM_PHRASE == <<"C", "O", "N", "F", "I", "R", "M", " ", "D", "E", "L", "E", "T", "E", " ", "A", "L", "L">>

DELETE_WORD == <<"d", "e", "l", "e", "t", "e">>

\* a variant that compares the text as typed, without strip() and upper()
is_confirmation_exact(text) == text = CONFIRM_PHRASE

\* text.strip().upper() == 'CONFIRM DELETE ALL'
is_confirmation(text) == str_upper(str_strip(text)) = CONFIRM_PHRASE

\* 'delete' in text.lower()
wants_delete(text) == str_contains(str_lower(text), DELETE_WORD)

EDIT_TEXT_LIMIT == 15

\* new_amount and len(text_without_number) < 15
is_amount_edit(text) ==
    /\ Truthy(amount_of(text))
    /\ Len(str_strip(re_sub_numbers(text))) < EDIT_TEXT_LIMIT

\* new_category != 'Other' and new_category != txn_data['category']
is_category_edit(text, txn_data) ==
    /\ category_of(text) # "Other"
    /\ category_of(text) # txn_data.category

\* the update handled last: what arrived, and what the bot answered
\* (reply = "" when it sent nothing; result and count are the values the
\* reply text shows).
\* appends counts the ledger rows appended so far for the message id
Update(kind, user, id, text, reply_to, reply, result, count) ==
    [kind |-> kind, user |-> user, id |-> id, text |-> text, reply_to |-> reply_to,
     reply |-> reply, result |-> result, count |-> count,
     appends |-> (IF id = last.id THEN last.appends ELSE 0)
                 + (IF reply = "Expense recorded" THEN 1 ELSE 0)]

NoUpdate ==
    [kind |-> "none", user |-> "", id |-> 0, text |-> <<>>, reply_to |-> NoReplyTo,
     reply |-> "", result |-> "", count |-> 0, appends |-> 0]

\* the function f without the key k (del f[k])
RemoveKey(f, k) == [j \in DOMAIN f \ {k} |-> f[j]]

\* the function f with f[k] = v (f[k] = v on a dict)
PutKey(f, k, v) == [j \in DOMAIN f \cup {k} |-> IF j = k THEN v ELSE f[j]]

---------------------------------------------------------------------------
(* handle_message: a text message that is no command.  `mid` is the        *)
(* message id, `rt` the id of the message it replies to (NoReplyTo: none), *)
(* `free` the id the transport gives the next message the bot sends.       *)

\* a variant whose cancel branch forgets to clear the pending flag
confirm_step_keeps_pending(u, mid, text, rt, fail, free) ==
    IF is_confirmation(text)
    THEN LET r == delete_all_transactions(sheet, fail)
         IN  /\ sheet' = r.sheet
             /\ user_data' = [user_data EXCEPT ![u].pending_deleteall = FALSE]
             /\ last' = Update("text", u, mid, text, rt,
                               IF r.ok THEN "All transactions deleted"
                                       ELSE "Failed to delete transactions",
                               "", r.count)
             /\ UNCHANGED transactions
    ELSE /\ last' = Update("text", u, mid, text, rt, "Delete all cancelled", "", 0)
         /\ UNCHANGED <<sheet, transactions, user_data>>

\* lines 552-581: the user is confirming or cancelling a bulk delete
confirm_step(u, mid, text, rt, fail, free) ==
    IF is_confirmation(text)
    THEN LET r == delete_all_transactions(sheet, fail)
         IN  /\ sheet' = r.sheet
             /\ user_data' = [user_data EXCEPT ![u].pending_deleteall = FALSE]
             /\ last' = Update("text", u, mid, text, rt,
                               IF r.ok THEN "All transactions deleted"
                                       ELSE "Failed to delete transactions",
                               "", r.count)
             /\ UNCHANGED transactions
    ELSE /\ user_data' = [user_data EXCEPT ![u].pending_deleteall = FALSE]
         /\ last' = Update("text", u, mid, text, rt, "Delete all cancelled", "", 0)
         /\ UNCHANGED <<sheet, transactions>>

\* lines 592-641: a reply whose text contains 'delete'
reply_delete_step(u, mid, text, rt, fail, free) ==
    IF rt \in DOMAIN transactions
    THEN LET txn_data == transactions[rt]
             r == find_and_delete_transaction(sheet, txn_data.amount, txn_data.category,
                                              txn_data.message, fail)
         IN  /\ sheet' = r.sheet
             /\ transactions' = IF r.ok THEN RemoveKey(transactions, rt) ELSE transactions
             /\ last' = Update("text", u, mid, text, rt,
                               IF r.ok THEN "Transaction deleted"
                                       ELSE "Failed to delete transaction",
                               r.result, 0)
             /\ UNCHANGED user_data
    ELSE /\ last' = Update("text", u, mid, text, rt,
                           "Could not find transaction data", "", 0)
         /\ UNCHANGED <<sheet, transactions, user_data>>

\* a variant without the `return` of line 714: the edit is made and the
\* reply is logged as a new expense as well
edit_step_falls_through(u, mid, text, rt, fail, free) ==
    LET txn_data        == transactions[rt]
        update_amount   == is_amount_edit(text)
        update_category == is_category_edit(text, txn_data)
        r == update_transaction(sheet, txn_data.amount, txn_data.category, txn_data.message,
                                IF update_amount THEN amount_of(text) ELSE NoAmount,
                                IF update_category THEN category_of(text) ELSE NoCategory,
                                fail)
        a == add_expense_to_sheet(r.sheet, amount_of(text), category_of(text), text, fail, free)
    IN  /\ sheet' = IF amount_of(text) = NoAmount THEN r.sheet ELSE a.sheet
        /\ last' = Update("text", u, mid, text, rt,
                          IF r.ok THEN "Transaction updated" ELSE "Update failed",
                          r.result, 0)
        /\ UNCHANGED <<transactions, user_data>>

\* lines 672-714: a reply to a tracked message that the heuristic takes for an edit
edit_step(u, mid, text, rt, fail, free) ==
    LET txn_data        == transactions[rt]
        update_amount   == is_amount_edit(text)
        update_category == is_category_edit(text, txn_data)
        r == update_transaction(sheet, txn_data.amount, txn_data.category, txn_data.message,
                                IF update_amount THEN amount_of(text) ELSE NoAmount,
                                IF update_category THEN category_of(text) ELSE NoCategory,
                                fail)
    IN  /\ sheet' = r.sheet
        /\ last' = Update("text", u, mid, text, rt,
                          IF r.ok THEN "Transaction updated" ELSE "Update failed",
                          r.result, 0)
        /\ UNCHANGED <<transactions, user_data>>

\* a variant that logs a text without an amount as an expense of 0
insert_step_logs_zero(u, mid, text, rt, fail, free) ==
    LET found    == amount_of(text)
        amount   == IF found = NoAmount THEN [whole |-> 0, frac |-> <<>>] ELSE found
        category == category_of(text)
        r        == add_expense_to_sheet(sheet, amount, category, text, fail, free)
        transaction_data == [amount |-> amount, category |-> category, message |-> text]
    IN  /\ sheet' = r.sheet
        /\ transactions' = IF r.ok THEN PutKey(PutKey(transactions, free, transaction_data),
                                               mid, transaction_data)
                                    ELSE transactions
        /\ last' = Update("text", u, mid, text, rt,
                          IF r.ok THEN "Expense recorded" ELSE "Failed to save expense",
                          "", 0)
        /\ UNCHANGED user_data

\* a variant that stores the record under the confirmation's id only
insert_step_one_handle(u, mid, text, rt, fail, free) ==
    LET amount   == amount_of(text)
        category == category_of(text)
        r        == add_expense_to_sheet(sheet, amount, category, text, fail, free)
        transaction_data == [amount |-> amount, category |-> category, message |-> text]
    IN  IF amount = NoAmount
        THEN /\ last' = Update("text", u, mid, text, rt,
                               "Could not find an amount", "", 0)
             /\ UNCHANGED <<sheet, transactions, user_data>>
        ELSE /\ sheet' = r.sheet
             /\ transactions' = IF r.ok THEN PutKey(transactions, free, transaction_data)
                                         ELSE transactions
             /\ last' = Update("text", u, mid, text, rt,
                               IF r.ok THEN "Expense recorded" ELSE "Failed to save expense",
                               "", 0)
             /\ UNCHANGED user_data

\* lines 716-801: the text is logged as a new expense
insert_step(u, mid, text, rt, fail, free) ==
    LET amount   == amount_of(text)
        category == category_of(text)
        r        == add_expense_to_sheet(sheet, amount, category, text, fail, free)
        transaction_data == [amount |-> amount, category |-> category, message |-> text]
    IN  IF amount = NoAmount
        THEN /\ last' = Update("text", u, mid, text, rt,
                               "Could not find an amount", "", 0)
             /\ UNCHANGED <<sheet, transactions, user_data>>
        ELSE /\ sheet' = r.sheet
             /\ transactions' = IF r.ok
                                THEN PutKey(PutKey(transactions, free, transaction_data),
                                            mid, transaction_data)
                                ELSE transactions
             /\ last' = Update("text", u, mid, text, rt,
                               IF r.ok THEN "Expense recorded" ELSE "Failed to save expense",
                               "", 0)
             /\ UNCHANGED user_data

\* lines 584-714: whether the reply linkage handles the message
is_edit_reply(text, rt) ==
    /\ rt # NoReplyTo
    /\ rt \in DOMAIN transactions
    /\ (is_amount_edit(text) \/ is_category_edit(text, transactions[rt]))

\* a variant in which the duplicate check never fires
already_processed_never(mid) == FALSE

\* a variant that lets a message through again when nothing was logged for it
already_processed_if_logged(mid) == mid \in processed_messages /\ mid \in DOMAIN transactions

\* message_id in context.bot_data['processed_messages']
already_processed(mid) == mid \in processed_messages

handle_message(u, mid, text, rt, fail, free) ==
    IF already_processed(mid)
    THEN /\ last' = Update("text", u, mid, text, rt, "", "", 0)
         /\ nextId' = free
         /\ UNCHANGED <<sheet, processed_messages, transactions, user_data>>
    ELSE /\ processed_messages' \in cleanup_processed(processed_messages \cup {mid})
         /\ nextId' = free + 1
         /\ IF user_data[u].pending_deleteall
            THEN confirm_step(u, mid, text, rt, fail, free)
            ELSE IF rt # NoReplyTo /\ wants_delete(text)
            THEN reply_delete_step(u, mid, text, rt, fail, free)
            ELSE IF is_edit_reply(text, rt)
            THEN edit_step(u, mid, text, rt, fail, free)
            ELSE insert_step(u, mid, text, rt, fail, free)

---------------------------------------------------------------------------
(* Command handlers.  A command is routed to its CommandHandler and never  *)
(* reaches handle_message (filters.TEXT & ~filters.COMMAND).               *)

\* an amount in hundredths, for sums and comparisons
Hundredths(amount) ==
    amount.whole * 100
    + (IF Len(amount.frac) >= 1 THEN 10 * DigitValue(amount.frac[1]) ELSE 0)
    + (IF Len(amount.frac) >= 2 THEN DigitValue(amount.frac[2]) ELSE 0)

RECURSIVE SumAmounts(_)
SumAmounts(records) ==
    IF records = <<>> THEN 0
    ELSE Hundredths(records[1].amount) + SumAmounts(Tail(records))

\* every row of the modelled ledger is dated in the current month
get_monthly_expenses(sh, fail) ==
    IF Failed(fail, 3) THEN 0 ELSE SumAmounts(get_all_records(sh))

\* float(os.getenv('MONTHLY_BUDGET', '0')), in hundredths
MONTHLY_BUDGET == 0

RECENT_LIMIT == 10

start_command(u, mid, fail, free) ==
    /\ last' = Update("start", u, mid, <<>>, NoReplyTo, "Welcome", "", 0)
    /\ nextId' = free + 1
    /\ UNCHANGED <<sheet, processed_messages, transactions, user_data>>

\* a variant in which handling the command ends a pending confirmation
help_command_cancels(u, mid, fail, free) ==
    /\ last' = Update("help", u, mid, <<>>, NoReplyTo, "How to use", "", 0)
    /\ nextId' = free + 1
    /\ user_data' = [user_data EXCEPT ![u].pending_deleteall = FALSE]
    /\ UNCHANGED <<sheet, processed_messages, transactions>>

help_command(u, mid, fail, free) ==
    /\ last' = Update("help", u, mid, <<>>, NoReplyTo, "How to use", "", 0)
    /\ nextId' = free + 1
    /\ UNCHANGED <<sheet, processed_messages, transactions, user_data>>

balance_command(u, mid, fail, free) ==
    LET total_expenses == get_monthly_expenses(sheet, fail)
        remaining      == MONTHLY_BUDGET - total_expenses
        raises         == ~(remaining < 0) /\ ~(5 * remaining < MONTHLY_BUDGET)
                          /\ MONTHLY_BUDGET = 0
    IN  /\ last' = Update("balance", u, mid, <<>>, NoReplyTo,
                          IF raises THEN "" ELSE "Monthly Budget Report",
                          IF remaining < 0 THEN "Budget exceeded"
                          ELSE IF 5 * remaining < MONTHLY_BUDGET THEN "Less than 20% remaining"
                          ELSE IF raises THEN "ZeroDivisionError"
                          ELSE "Budget left",
                          0)
        /\ nextId' = IF raises THEN free ELSE free + 1
        /\ UNCHANGED <<sheet, processed_messages, transactions, user_data>>

recent_command(u, mid, fail, free) ==
    LET txns == get_recent_transactions(sheet, RECENT_LIMIT, fail)
    IN  /\ last' = Update("recent", u, mid, <<>>, NoReplyTo,
                          IF txns = <<>> THEN "No transactions found"
                                         ELSE "Recent Transactions",
                          "", Len(txns))
        /\ nextId' = free + 1
        /\ UNCHANGED <<sheet, processed_messages, transactions, user_data>>

\* whether int(arg) succeeds: an optional sign and then digits
is_int_literal(arg) ==
    LET body == IF arg # <<>> /\ arg[1] \in {"-", "+"} THEN Tail(arg) ELSE arg
    IN  body # <<>> /\ \A i \in 1..Len(body) : IsDigit(body[i])

\* int(arg)
int_of(arg) ==
    IF arg[1] = "-" THEN 0 - DigitsToNat(Tail(arg))
    ELSE IF arg[1] = "+" THEN DigitsToNat(Tail(arg))
    ELSE DigitsToNat(arg)

\* arg = <<>>: the command came without an argument (context.args is empty)
delete_command(u, mid, arg, fail, free) ==
    /\ nextId' = free + 1
    /\ UNCHANGED <<processed_messages, transactions, user_data>>
    /\ IF arg = <<>>
       THEN /\ last' = Update("delete", u, mid, arg, NoReplyTo,
                              "Please specify which transaction", "", 0)
            /\ UNCHANGED sheet
       ELSE IF ~is_int_literal(arg)
       THEN /\ last' = Update("delete", u, mid, arg, NoReplyTo,
                              "Invalid number format", "", 0)
            /\ UNCHANGED sheet
       ELSE LET txn_number == int_of(arg)
                txns       == get_recent_transactions(sheet, RECENT_LIMIT, fail)
            IN  IF txn_number < 1 \/ txn_number > Len(txns)
                THEN /\ last' = Update("delete", u, mid, arg, NoReplyTo,
                                       "Invalid transaction number", "", Len(txns))
                     /\ UNCHANGED sheet
                ELSE LET r == delete_transaction_by_row(sheet, txns[txn_number].row,
                                                        IF fail > 3 THEN fail - 3 ELSE 0)
                     IN  /\ sheet' = r.sheet
                         /\ last' = Update("delete", u, mid, arg, NoReplyTo,
                                           IF r.ok THEN "Transaction deleted"
                                                   ELSE "Failed to delete transaction",
                                           r.result, 0)

\* a variant that keeps the pending state in one place for all users
deleteall_command_shared(u, mid, fail, free) ==
    LET transaction_count == Len(sheet) - 1
    IN  /\ nextId' = free + 1
        /\ UNCHANGED <<sheet, processed_messages, transactions>>
        /\ IF Failed(fail, 3) \/ transaction_count <= 0
           THEN /\ last' = Update("deleteall", u, mid, <<>>, NoReplyTo,
                                  "No transactions to delete", "", 0)
                /\ UNCHANGED user_data
           ELSE /\ user_data' = [v \in DOMAIN user_data |->
                                    [pending_deleteall |-> TRUE,
                                     deleteall_count   |-> transaction_count]]
                /\ last' = Update("deleteall", u, mid, <<>>, NoReplyTo,
                                  "DANGER: DELETE ALL TRANSACTIONS", "", transaction_count)

deleteall_command(u, mid, fail, free) ==
    LET transaction_count == Len(sheet) - 1
    IN  /\ nextId' = free + 1
        /\ UNCHANGED <<sheet, processed_messages, transactions>>
        /\ IF fail = 1
           THEN /\ last' = Update("deleteall", u, mid, <<>>, NoReplyTo,
                                  "Failed to connect to Google Sheets", "", 0)
                /\ UNCHANGED user_data
           ELSE IF Failed(fail, 3)
           THEN /\ last' = Update("deleteall", u, mid, <<>>, NoReplyTo,
                                  "Error checking transactions", "", 0)
                /\ UNCHANGED user_data
           ELSE IF transaction_count <= 0
           THEN /\ last' = Update("deleteall", u, mid, <<>>, NoReplyTo,
                                  "No transactions to delete", "", 0)
                /\ UNCHANGED user_data
           ELSE /\ user_data' = [user_data EXCEPT
                                    ![u] = [pending_deleteall |-> TRUE,
                                            deleteall_count   |-> transaction_count]]
                /\ last' = Update("deleteall", u, mid, <<>>, NoReplyTo,
                                  "DANGER: DELETE ALL TRANSACTIONS", "", transaction_count)

\* the handlers main() registers, by the kind of update they take
Dispatch(kind, u, mid, text, rt, fail, free) ==
    CASE kind = "text"      -> handle_message(u, mid, text, rt, fail, free)
      [] kind = "start"     -> start_command(u, mid, fail, free)
      [] kind = "help"      -> help_command(u, mid, fail, free)
      [] kind = "balance"   -> balance_command(u, mid, fail, free)
      [] kind = "recent"    -> recent_command(u, mid, fail, free)
      [] kind = "delete"    -> delete_command(u, mid, text, fail, free)
      [] kind = "deleteall" -> deleteall_command(u, mid, fail, free)

---------------------------------------------------------------------------
(* Inputs and bounds                                                       *)

\* message ids the transport hands out in a run
MaxMsgId == 6

\* rows the ledger holds when the bot starts
MaxInitRows == 1

\* message ids handed out in a run that starts with a full dedup cache
MaxDedupIds == 4

Users == {"A", "B"}

Commands == {"start", "help", "balance", "recent", "delete", "deleteall"}

\* the record handle_message logs for a text
ExpenseOf(timestamp, text) == Row(timestamp, amount_of(text), category_of(text), text)

\* ledgers an earlier run of the bot can have left
InitSheets ==
    {<<HEADER_ROW>> \o [k \in 1..n |-> ExpenseOf(k - n, TEXT_LUNCH_250)] : n \in 0..MaxInitRows}

---------------------------------------------------------------------------
(* The state machine                                                       *)

Init ==
    /\ sheet \in InitSheets
    /\ processed_messages = {}
    /\ transactions = <<>>
    /\ user_data = [u \in Users |-> [pending_deleteall |-> FALSE, deleteall_count |-> 0]]
    /\ nextId = 1
    /\ last = NoUpdate

\* a new text message arrives
DeliverText(u, text, rt, fail, maxId) ==
    /\ nextId + 1 <= maxId
    /\ rt < nextId
    /\ handle_message(u, nextId, text, rt, fail, nextId + 1)

\* a new command arrives
DeliverCommand(u, kind, arg, fail, maxId) ==
    /\ nextId + 1 <= maxId
    /\ kind = "delete" \/ arg = <<>>
    /\ Dispatch(kind, u, nextId, arg, NoReplyTo, fail, nextId + 1)

\* the transport delivers the last update once more
Redeliver(fail, maxId) ==
    /\ last.kind # "none"
    /\ nextId <= maxId
    /\ Dispatch(last.kind, last.user, last.id, last.text, last.reply_to, fail, nextId)

\* the process is started again: main() builds a new Application without
\* persistence, so bot_data and user_data are empty again; the ledger and
\* the transport's message ids live on
Restart ==
    /\ processed_messages' = {}
    /\ transactions' = <<>>
    /\ user_data' = [u \in Users |-> [pending_deleteall |-> FALSE, deleteall_count |-> 0]]
    /\ last' = NoUpdate
    /\ UNCHANGED <<sheet, nextId>>

\* the runs over users U, texts T replying to one of RT, commands K with
\* /delete arguments A, and failing remote calls F (0: no call fails), in
\* which the transport hands out the message ids up to maxId
NextOver(U, T, RT, K, A, F, maxId) ==
    \/ \E u \in U, text \in T, rt \in RT, fail \in F :
           DeliverText(u, text, rt, fail, maxId)
    \/ \E u \in U, kind \in K, arg \in A, fail \in F :
           DeliverCommand(u, kind, arg, fail, maxId)
    \/ \E fail \in F : Redeliver(fail, maxId)

\* the confirmation gate of one user
GateTexts == {TEXT_LUNCH_250, TEXT_CONFIRM, TEXT_CONFIRM_LOWER, TEXT_NO, TEXT_300, TEXT_DELETE}

NextGate == NextOver({"A"}, GateTexts, 0..MaxMsgId, Commands, {<<>>, <<"1">>}, {0, 1}, MaxMsgId)

SpecGate == Init /\ [][NextGate]_vars

\* two users and their gates
UsersTexts == {TEXT_LUNCH_250, TEXT_CONFIRM, TEXT_NO}

NextUsers ==
    NextOver(Users, UsersTexts, 0..MaxMsgId, {"deleteall", "help"}, {<<>>}, {0, 1}, MaxMsgId)

SpecUsers == Init /\ [][NextUsers]_vars

\* replies to tracked messages: edits, deletes and new expenses
EditTexts == {TEXT_LUNCH_250, TEXT_UBER_300, TEXT_300, TEXT_UBER, TEXT_ZERO, TEXT_NO, TEXT_DELETE}

NextEdit == NextOver({"A"}, EditTexts, 0..MaxMsgId, {"recent"}, {<<>>}, {0, 1, 5}, MaxMsgId)

SpecEdit == Init /\ [][NextEdit]_vars

\* replies that arrive after a restart
RestartTexts == {TEXT_LUNCH_250, TEXT_300, TEXT_DELETE}

NextRestart ==
    \/ NextOver({"A"}, RestartTexts, 0..MaxMsgId, {"recent"}, {<<>>}, {0}, MaxMsgId)
    \/ Restart

SpecRestart == Init /\ [][NextRestart]_vars

\* rows of the ledger /delete <n> works on
MaxLedgerRows == 12

\* the argument a user types for position n
POSITIONS ==
    << <<"1">>, <<"2">>, <<"3">>, <<"4">>, <<"5">>, <<"6">>, <<"7">>, <<"8">>, <<"9">>,
       <<"1", "0">>, <<"1", "1">> >>

\* /delete arguments: none, positions, and arguments that are no position
DeleteArgs ==
    {POSITIONS[n] : n \in {1, 2, 10, 11}}
    \cup {<<>>, <<"0">>, <<"-", "1">>, <<"a", "b", "c">>}

\* a ledger of up to MaxLedgerRows expenses, told apart by their timestamps
InitDelete ==
    /\ sheet \in {<<HEADER_ROW>> \o [k \in 1..n |-> ExpenseOf(k - n, TEXT_LUNCH_250)] :
                      n \in 0..MaxLedgerRows}
    /\ processed_messages = {}
    /\ transactions = <<>>
    /\ user_data = [u \in Users |-> [pending_deleteall |-> FALSE, deleteall_count |-> 0]]
    /\ nextId = 1
    /\ last = NoUpdate

NextDelete ==
    NextOver({"A"}, {TEXT_300}, {NoReplyTo}, {"delete", "recent"}, DeleteArgs, {0, 4}, MaxMsgId)

SpecDelete == InitDelete /\ [][NextDelete]_vars

\* inserts and edits, a text with a minus sign among them
RecordTexts == {TEXT_LUNCH_250, TEXT_MINUS_50_TAXI, TEXT_UBER, TEXT_ZERO, TEXT_NO}

NextRecords == NextOver({"A"}, RecordTexts, 0..MaxMsgId, {"recent"}, {<<>>}, {0, 5}, MaxMsgId)

SpecRecords == Init /\ [][NextRecords]_vars

\* length of the texts the extractor is run on, in characters
MaxTextLen == 3

\* length of the texts the classifier is run on, in words
MaxWords == 2

\* digits, the decimal point, the separators and symbols extract_amount
\* deals with ('$', ',', the euro sign U+20AC), a blank and a letter
AmountChars == {"1", "0", ".", ",", " ", "a", "$", "u20ac"}

\* words with a keyword of each category in them, in some case, and without
WordTokens ==
    { <<"l", "u", "n", "c", "h">>, <<"U", "B", "E", "R">>, <<"M", "a", "r", "k", "e", "t">>,
      <<"s", "h", "o", "p">>, <<"m", "o", "v", "i", "e">>, <<"p", "a", "r", "e", "n", "t">>,
      <<"g", "y", "m">>, <<"c", "o", "l", "a">>, <<"x", "y", "z">>, <<" ">>, <<"2", "5", "0">> }

RECURSIVE Concat(_)
Concat(words) == IF words = <<>> THEN <<>> ELSE Head(words) \o Concat(Tail(words))

PureTexts ==
    UNION {[1..n -> AmountChars] : n \in 1..MaxTextLen}
    \cup {Concat(ws) : ws \in UNION {[1..n -> WordTokens] : n \in 1..MaxWords}}

\* a text has arrived and nothing has been done with it yet
InitPure ==
    /\ sheet = <<HEADER_ROW>>
    /\ processed_messages = {}
    /\ transactions = <<>>
    /\ user_data = [u \in Users |-> [pending_deleteall |-> FALSE, deleteall_count |-> 0]]
    /\ nextId = 1
    /\ \E text \in PureTexts : last = [NoUpdate EXCEPT !.text = text]

\* lines 716-731 and 779-783: the amount and the category of the text are
\* worked out and put into its transaction_data
Classify ==
    /\ last.kind = "none"
    /\ transactions' = PutKey(transactions, nextId,
                              [amount   |-> extract_amount(last.text),
                               category |-> detect_category(last.text),
                               message  |-> last.text])
    /\ last' = [last EXCEPT !.kind = "classified"]
    /\ UNCHANGED <<sheet, processed_messages, user_data, nextId>>

NextPure == Classify

SpecPure == InitPure /\ [][NextPure]_vars

\* the bot after /recent (message 1, answered by message 2) on a ledger of
\* up to MaxLedgerRows expenses: the user has the listing before them
InitListing ==
    /\ sheet \in {<<HEADER_ROW>> \o [k \in 1..n |-> ExpenseOf(k - n, TEXT_LUNCH_250)] :
                      n \in 0..MaxLedgerRows}
    /\ processed_messages = {}
    /\ transactions = <<>>
    /\ user_data = [u \in Users |-> [pending_deleteall |-> FALSE, deleteall_count |-> 0]]
    /\ nextId = 3
    /\ last = [kind |-> "recent", user |-> "A", id |-> 1, text |-> <<>>, reply_to |-> NoReplyTo,
               reply |-> IF Len(sheet) = 1 THEN "No transactions found"
                                           ELSE "Recent Transactions",
               result |-> "",
               count |-> IF Len(sheet) - 1 < RECENT_LIMIT THEN Len(sheet) - 1 ELSE RECENT_LIMIT,
               appends |-> 0]

\* expenses are logged and /delete <n> is sent after the listing
NextListing ==
    NextOver({"A"}, {TEXT_300}, {NoReplyTo}, {"delete"}, DeleteArgs \ {<<>>}, {0},
             MaxMsgId + 2)

SpecListing == InitListing /\ [][NextListing]_vars

\* the bot after 100 texts without an amount (messages 1, 3, .., 199, each
\* answered by the next id): the dedup cache holds 100 identifiers
DedupStart == {2 * k - 1 : k \in 1..PROCESSED_LIMIT}

InitDedup ==
    /\ sheet = <<HEADER_ROW>>
    /\ processed_messages = DedupStart
    /\ transactions = <<>>
    /\ user_data = [u \in Users |-> [pending_deleteall |-> FALSE, deleteall_count |-> 0]]
    /\ nextId = 2 * PROCESSED_LIMIT + 1
    /\ last = [kind |-> "text", user |-> "A", id |-> 2 * PROCESSED_LIMIT - 1, text |-> TEXT_NO,
               reply_to |-> NoReplyTo, reply |-> "Could not find an amount", result |-> "",
               count |-> 0, appends |-> 0]

NextDedup ==
    NextOver({"A"}, {TEXT_LUNCH_250}, {NoReplyTo}, {"help"}, {<<>>}, {0},
             2 * PROCESSED_LIMIT + MaxDedupIds)

SpecDedup == InitDedup /\ [][NextDedup]_vars

\* the same run, with appends that fail for want of a connection
NextRetry ==
    NextOver({"A"}, {TEXT_LUNCH_250}, {NoReplyTo}, {"help"}, {<<>>}, {0, 1},
             2 * PROCESSED_LIMIT + MaxDedupIds)

SpecRetry == InitDedup /\ [][NextRetry]_vars

---------------------------------------------------------------------------
(* Properties.  Every step of the machine handles one update, and last'    *)
(* describes it: who sent what, and which reply the bot gave; the unprimed *)
(* variables are the state the handler found.                              *)

Pending(u) == user_data[u].pending_deleteall

PendingAfter(u) == user_data'[u].pending_deleteall

\* the replies handle_message sends right after calling delete_all_transactions
BulkReplies == {"All transactions deleted", "Failed to delete transactions"}

\* the step handles a text message whose id the dedup cache does not hold
FreshText == last'.kind = "text" /\ last'.id \notin processed_messages

\* the texts that are the confirmation phrase once trimmed and upper-cased
PhraseTexts == {TEXT_CONFIRM, TEXT_CONFIRM_LOWER}

\* C1: the bulk delete is guarded by the confirmation step.  It is invoked
\* only by a handle_message step of a user whose pending flag is set and
\* whose text is the confirmation phrase (trimmed, any case); the flag is set
\* only by that user's /deleteall; a confirmation while pending invokes the
\* bulk delete once, removes every data row when it succeeds, and leaves the
\* gate Idle, so that a further confirmation invokes nothing.
C1_BulkDeleteGuarded ==
    [][ /\ (last'.reply \in BulkReplies \/ Len(sheet') < Len(sheet) - 1) =>
              /\ FreshText
              /\ Pending(last'.user)
              /\ last'.text \in PhraseTexts
        /\ \A u \in Users :
              (~Pending(u) /\ PendingAfter(u)) =>
                  (last'.kind = "deleteall" /\ last'.user = u /\ Len(sheet) > 1)
        /\ (FreshText /\ Pending(last'.user) /\ last'.text \in PhraseTexts) =>
              /\ last'.reply \in BulkReplies
              /\ ~PendingAfter(last'.user)
              /\ last'.reply = "All transactions deleted" =>
                    (sheet' = <<HEADER_ROW>> /\ last'.count = Len(sheet) - 1)
              /\ last'.reply = "Failed to delete transactions" => sheet' = sheet
        /\ (last'.kind = "text" /\ ~Pending(last'.user)) =>
              last'.reply \notin BulkReplies
      ]_vars

\* a confirmed bulk delete has emptied a ledger of at least one transaction
C1_Witness ==
    /\ last.reply = "All transactions deleted"
    /\ last.text = TEXT_CONFIRM_LOWER
    /\ last.count >= 1
    /\ sheet = <<HEADER_ROW>>
    /\ ~Pending(last.user)

\* C2: while the gate is pending, a fresh text that is not the confirmation
\* phrase only cancels: the gate is Idle afterwards, the ledger and the
\* transaction index are unchanged, whatever the message replies to.
C2_OtherTextCancels ==
    [][ (FreshText /\ Pending(last'.user) /\ last'.text \notin PhraseTexts) =>
            /\ ~PendingAfter(last'.user)
            /\ sheet' = sheet
            /\ transactions' = transactions
            /\ last'.reply = "Delete all cancelled"
      ]_vars

\* a reply "300" or "Delete" to a tracked message has cancelled a pending gate
C2_Witness ==
    /\ last.reply = "Delete all cancelled"
    /\ last.text \in {TEXT_300, TEXT_DELETE}
    /\ last.reply_to \in DOMAIN transactions
    /\ Len(sheet) > 1

\* C3 (as claimed): with the gate Idle, the text 'CONFIRM DELETE ALL' changes
\* no ledger row, whatever it replies to.
C3_IdleConfirmNoEffect ==
    [][ (last'.kind = "text" /\ ~Pending(last'.user) /\ last'.text = TEXT_CONFIRM) =>
            sheet' = sheet
      ]_vars

\* C9 (as claimed): while the gate is pending, any update of that user other
\* than the confirmation phrase, a command included, returns it to Idle.
C9_AnyUpdateCancels ==
    [][ ( /\ Pending(last'.user)
          /\ \/ FreshText /\ last'.text \notin PhraseTexts
             \/ last'.kind \in {"start", "help", "balance", "recent", "delete"} ) =>
            ~PendingAfter(last'.user)
      ]_vars

\* C10: the gate is per user.  No update of one user changes the pending
\* state of another, and a confirmation phrase from a user whose own gate is
\* Idle invokes no bulk delete, also while another user's gate is pending.
C10_GatePerUser ==
    [][ /\ \A u \in Users : u # last'.user => user_data'[u] = user_data[u]
        /\ (last'.kind = "text" /\ ~Pending(last'.user)) =>
              /\ last'.reply \notin BulkReplies
              /\ Len(sheet') >= Len(sheet) - 1
      ]_vars

\* B has sent the confirmation phrase while A's gate was pending: nothing was
\* deleted and A's gate is still pending
C10_Witness ==
    /\ last.kind = "text" /\ last.user = "B" /\ last.text = TEXT_CONFIRM
    /\ last.reply = "Could not find an amount"
    /\ Pending("A") /\ ~Pending("B")
    /\ Len(sheet) > 2

\* (amount, category, note) of a ledger row, as the Transaction Index holds it
TripleOf(row) == [amount |-> row.amount, category |-> row.category, message |-> row.message]

\* the step handles a text whose id the dedup cache holds, and does nothing
Discarded ==
    /\ last'.reply = ""
    /\ UNCHANGED <<sheet, processed_messages, transactions, user_data, nextId>>

C5_BothHandlesIndexed ==
    [][ /\ last'.reply = "Expense recorded" =>
              LET rec == sheet'[Len(sheet')]
                  confirmation_id == nextId' - 1
              IN  /\ sheet' = Append(sheet, rec)
                  /\ rec.message = last'.text
                  /\ confirmation_id # last'.id
                  /\ {last'.id, confirmation_id} \subseteq DOMAIN transactions'
                  /\ transactions'[last'.id] = TripleOf(rec)
                  /\ transactions'[confirmation_id] = TripleOf(rec)
                  /\ \A k \in DOMAIN transactions \ {last'.id, confirmation_id} :
                        k \in DOMAIN transactions' /\ transactions'[k] = transactions[k]
        /\ last'.reply \in {"Could not find an amount", "Failed to save expense"} =>
              (transactions' = transactions /\ sheet' = sheet)
        /\ Len(sheet') > Len(sheet) => last'.reply = "Expense recorded"
      ]_vars

\* 'uber 300' has been logged: both handles resolve to the appended row
C5_Witness ==
    /\ last.reply = "Expense recorded" /\ last.text = TEXT_UBER_300
    /\ {last.id, last.id + 1} \subseteq DOMAIN transactions
    /\ transactions[last.id] = [amount |-> [whole |-> 300, frac |-> <<>>],
                                category |-> "Transport", message |-> TEXT_UBER_300]
    /\ transactions[last.id + 1] = transactions[last.id]
    /\ TripleOf(sheet[Len(sheet)]) = transactions[last.id]

\* the rows of sh (below the header) that hold the triple q
MatchingRows(sh, q) == {k \in 2..Len(sh) : TripleOf(sh[k]) = q}

\* sh2 is sh without its row m
WithoutRow(sh, sh2, m) ==
    /\ Len(sh2) = Len(sh) - 1
    /\ \A k \in 1..(m - 1) : sh2[k] = sh[k]
    /\ \A k \in m..Len(sh2) : sh2[k] = sh[k + 1]

\* C6: the content-based delete removes exactly the highest-indexed row that
\* holds the queried triple and keeps every other row in its order; when no
\* row matches it removes nothing and reports 'Transaction not found'; a
\* failed call to the spreadsheet removes nothing and reports 'Error'.
C6_MostRecentWins ==
    [][ (last'.kind = "text" /\ last'.reply \in {"Transaction deleted", "Failed to delete transaction"}) =>
            LET matches == MatchingRows(sheet, transactions[last'.reply_to])
            IN  \/ /\ matches = {}
                   /\ last'.result = "Transaction not found"
                   /\ sheet' = sheet
                \/ /\ matches # {}
                   /\ last'.reply = "Transaction deleted"
                   /\ WithoutRow(sheet, sheet', CHOOSE m \in matches : \A k \in matches : k <= m)
                \/ /\ last'.result = "Error"
                   /\ sheet' = sheet
      ]_vars

\* of two identical expenses the one logged in this run was deleted and the
\* one an earlier run left is still in the ledger
C6_Witness ==
    /\ last.kind = "text" /\ last.reply = "Transaction deleted"
    /\ Len(sheet) = 2 /\ sheet[2].timestamp < 1
    /\ \E k \in DOMAIN transactions :
          transactions[k] = TripleOf(sheet[2]) /\ k \in {last.reply_to - 1, last.reply_to + 1}

\* the reply is a text without 'delete' to a tracked message, the gate Idle
EditCandidate ==
    /\ FreshText
    /\ ~Pending(last'.user)
    /\ last'.reply_to \in DOMAIN transactions
    /\ ~str_contains(str_lower(last'.text), DELETE_WORD)

EditReplies == {"Transaction updated", "Update failed"}

\* C7 (as claimed): a reply to a tracked message is an amount edit exactly
\* when it holds a number (0 included) and, with the digits removed, is
\* shorter than 15 characters, and a category edit exactly when its category
\* is not 'Other' and differs from the record's; an edit sets the amount
\* and/or the category of the record's row and leaves the other field.
C7_EditHeuristic ==
    [][ EditCandidate =>
            LET txn           == transactions[last'.reply_to]
                new_amount    == extract_amount(last'.text)
                new_category  == detect_category(last'.text)
                amount_edit   == /\ new_amount # NoAmount
                                 /\ Len(SelectSeq(last'.text, LAMBDA c : ~IsDigit(c))) < 15
                category_edit == new_category # "Other" /\ new_category # txn.category
            IN  /\ (amount_edit \/ category_edit) <=> last'.reply \in EditReplies
                /\ last'.reply = "Transaction updated" =>
                      \E k \in MatchingRows(sheet, txn) :
                          /\ sheet'[k].amount = IF amount_edit THEN new_amount ELSE txn.amount
                          /\ sheet'[k].category = IF category_edit THEN new_category
                                                                   ELSE txn.category
      ]_vars

ErrorReplies ==
    {"Failed to delete transaction", "Update failed", "Could not find an amount",
     "Failed to save expense"}

\* C8: a reply to a tracked message has one effect: it updates one row that
\* holds the tracked record, or deletes one row, or appends one row, or
\* leaves the ledger alone and answers with an error; a reply that sets
\* neither edit flag ('0', 'no') is handled as a new message, always.
C8_SingleEffect ==
    [][ (FreshText /\ ~Pending(last'.user) /\ last'.reply_to \in DOMAIN transactions) =>
            LET txn      == transactions[last'.reply_to]
                updated  == /\ Len(sheet') = Len(sheet)
                            /\ \E k \in MatchingRows(sheet, txn) :
                                  /\ sheet'[k] # sheet[k]
                                  /\ \A j \in 1..Len(sheet) : j # k => sheet'[j] = sheet[j]
                deleted  == \E k \in 2..Len(sheet) : WithoutRow(sheet, sheet', k)
                appended == /\ Len(sheet') = Len(sheet) + 1
                            /\ SubSeq(sheet', 1, Len(sheet)) = sheet
                refused  == sheet' = sheet /\ last'.reply \in ErrorReplies
            IN  /\ updated \/ deleted \/ appended \/ refused
                /\ updated => (last'.reply \in EditReplies /\ transactions' = transactions)
                /\ deleted => last'.reply = "Transaction deleted"
                /\ appended => last'.reply = "Expense recorded"
                /\ last'.text = TEXT_ZERO =>
                      \/ appended /\ TripleOf(sheet'[Len(sheet')])
                                       = [amount |-> [whole |-> 0, frac |-> <<>>],
                                          category |-> "Other", message |-> TEXT_ZERO]
                      \/ refused /\ last'.reply = "Failed to save expense"
                /\ last'.text = TEXT_NO =>
                      (refused /\ last'.reply = "Could not find an amount")
      ]_vars

\* the reply 'uber 300' to the tracked 'lunch 250' has updated its row
C8_Witness ==
    /\ last.kind = "text" /\ last.reply = "Transaction updated" /\ last.text = TEXT_UBER_300
    /\ last.reply_to \in DOMAIN transactions
    /\ transactions[last.reply_to].message = TEXT_LUNCH_250
    /\ \E k \in 2..Len(sheet) :
          /\ sheet[k].amount = [whole |-> 300, frac |-> <<>>]
          /\ sheet[k].category = "Transport"
          /\ sheet[k].message = <<"l", "u", "n", "c", "h", " ", "3", "0", "0">>

\* C11: no timeout is enforced on the gate.  A pending gate stays pending in
\* every step that is not a fresh text of that user, whatever else arrives
\* and however many updates pass, and the confirmation phrase that arrives
\* then still runs the bulk delete over the rows the ledger holds by then.
C11_NoTimeout ==
    [][ /\ \A u \in Users :
              (Pending(u) /\ ~(FreshText /\ last'.user = u)) =>
                  PendingAfter(u)
        /\ (FreshText /\ Pending(last'.user) /\ last'.text \in PhraseTexts) =>
              /\ last'.reply \in BulkReplies
              /\ last'.reply = "All transactions deleted" =>
                    (sheet' = <<HEADER_ROW>> /\ last'.count = Len(sheet) - 1)
      ]_vars

\* A armed the gate over one row, B logged an expense meanwhile, and A's
\* later confirmation deleted both rows
C11_Witness ==
    /\ last.kind = "text" /\ last.user = "A" /\ last.text = TEXT_CONFIRM
    /\ last.reply = "All transactions deleted"
    /\ user_data["A"].deleteall_count = 1
    /\ last.count = 2
    /\ sheet = <<HEADER_ROW>>

\* the reply is a fresh text, the gate Idle, to the confirmation of an
\* expense whose row (k) is in the ledger while the index has no entry for it
UntrackedReplyTo(k) ==
    /\ FreshText
    /\ ~Pending(last'.user)
    /\ last'.reply_to # NoReplyTo
    /\ last'.reply_to \notin DOMAIN transactions
    /\ k \in 2..Len(sheet)
    /\ sheet[k].timestamp = last'.reply_to

\* C12 (as claimed): a delete or edit reply to a message that has no index
\* entry, while the record logged for that message is in the ledger, is
\* resolved by content and applied: 'Delete' removes the row, '300' sets its
\* amount.
C12_ResolvedByContent ==
    [][ \A k \in 2..Len(sheet) :
            UntrackedReplyTo(k) =>
                /\ last'.text = TEXT_DELETE => WithoutRow(sheet, sheet', k)
                /\ last'.text = TEXT_300 =>
                      /\ Len(sheet') = Len(sheet)
                      /\ sheet'[k].amount = [whole |-> 300, frac |-> <<>>]
      ]_vars

\* C13 (as claimed): commands are processed at most once.  A /delete <n> or
\* /deleteall that has had its effect and is delivered again with the same
\* message id deletes no further row and does not arm the gate again.
C13_CommandsAtMostOnce ==
    [][ ( /\ last'.kind \in {"delete", "deleteall"}
          /\ last'.kind = last.kind
          /\ last'.id = last.id
          /\ last.reply \in {"Transaction deleted", "DANGER: DELETE ALL TRANSACTIONS"} ) =>
            (sheet' = sheet /\ user_data' = user_data)
      ]_vars

\* the k smallest members of S: the k identifiers that arrived first
RECURSIVE Oldest(_, _)
Oldest(S, k) ==
    IF k <= 0 \/ S = {} THEN {}
    ELSE LET m == CHOOSE x \in S : \A y \in S : x <= y
         IN  {m} \cup Oldest(S \ {m}, k - 1)

\* C14 (as claimed): when recording an identifier makes the dedup cache
\* larger than 100, the 50 oldest identifiers are dropped and all newer
\* ones, the one just recorded included, are kept.
C14_EvictsOldestHalf ==
    [][ (FreshText /\ Cardinality(processed_messages \cup {last'.id}) > PROCESSED_LIMIT) =>
            LET recorded == processed_messages \cup {last'.id}
            IN  processed_messages' = recorded \ Oldest(recorded, 50)
      ]_vars

\* C15: the dedup cache is bounded.  Whenever handle_message has finished
\* its dedup step the cache holds at most 100 identifiers.
C15_DedupBounded == Cardinality(processed_messages) <= PROCESSED_LIMIT

\* a text arrived while the cache was full, was recorded and processed, and
\* the cache holds 100 identifiers again, one of the earlier ones gone
C15_Witness ==
    /\ last.kind = "text" /\ last.reply = "Expense recorded"
    /\ last.id \in processed_messages
    /\ Cardinality(processed_messages) = PROCESSED_LIMIT
    /\ DedupStart \ processed_messages # {}

\* C16: /delete <n> with 1 <= n <= min(T, 10), T the number of data rows,
\* deletes exactly the sheet row max(0, T - 10) + n + 1 and no other row
\* (or, when the call to the spreadsheet fails, no row at all).
C16_DeleteByPosition ==
    [][ last'.kind = "delete" =>
            LET T == Len(sheet) - 1
            IN  /\ \A n \in 1..Len(POSITIONS) :
                      (last'.text = POSITIONS[n] /\ n <= T /\ n <= 10) =>
                          \/ /\ last'.reply = "Transaction deleted"
                             /\ WithoutRow(sheet, sheet', Max(0, T - 10) + n + 1)
                          \/ /\ last'.reply = "Failed to delete transaction"
                             /\ sheet' = sheet
                /\ Len(sheet') >= Len(sheet) - 1
      ]_vars

\* /delete 1 on a ledger of 12 expenses has removed the third of them, the
\* oldest of the ten listed
C16_Witness ==
    /\ last.kind = "delete" /\ last.text = <<"1">> /\ last.reply = "Transaction deleted"
    /\ Len(sheet) = 12
    /\ sheet[2].timestamp = -11 /\ sheet[3].timestamp = -10 /\ sheet[4].timestamp = -8

\* C17 (as claimed): a /delete argument that is no number, or a number
\* below 1 or above the number of listed transactions, deletes no row and is
\* answered with the valid range 1..min(T, 10).
C17_InvalidArgRestatesRange ==
    [][ ( /\ last'.kind = "delete"
          /\ \/ last'.text \in {<<"0">>, <<"-", "1">>, <<"a", "b", "c">>}
             \/ \E n \in 1..Len(POSITIONS) :
                   last'.text = POSITIONS[n] /\ (n > Len(sheet) - 1 \/ n > 10) ) =>
            /\ sheet' = sheet
            /\ last'.reply = "Invalid transaction number"
            /\ last'.count = (IF Len(sheet) - 1 < 10 THEN Len(sheet) - 1 ELSE 10)
      ]_vars

\* C18: a text without a digit that replies to nothing, received with the
\* gate Idle, is answered with the extraction error and creates nothing: no
\* ledger row, no index entry, no change of the gate; the message after it
\* is processed as usual.
C18_ExtractionFailureCreatesNothing ==
    [][ /\ ( /\ FreshText
             /\ ~Pending(last'.user)
             /\ last'.reply_to = NoReplyTo
             /\ \A i \in 1..Len(last'.text) : ~IsDigit(last'.text[i]) ) =>
              /\ last'.reply = "Could not find an amount"
              /\ sheet' = sheet
              /\ transactions' = transactions
              /\ user_data' = user_data
        /\ ( /\ last.reply = "Could not find an amount"
             /\ FreshText
             /\ ~Pending(last'.user)
             /\ last'.reply_to = NoReplyTo
             /\ last'.text = TEXT_LUNCH_250 ) =>
              \/ /\ last'.reply = "Expense recorded"
                 /\ Len(sheet') = Len(sheet) + 1
                 /\ last'.id \in DOMAIN transactions'
              \/ /\ last'.reply = "Failed to save expense"
                 /\ sheet' = sheet
      ]_vars

\* 'no' was answered with the extraction error and left ledger and index empty
C18_Witness ==
    /\ last.kind = "text" /\ last.text = TEXT_NO /\ last.reply_to = NoReplyTo
    /\ last.reply = "Could not find an amount"
    /\ last.id \in processed_messages
    /\ sheet = <<HEADER_ROW>>
    /\ transactions = <<>>

\* the replies that tell the user that a ledger call failed
FailureReplies ==
    {"Failed to connect to Google Sheets", "Error checking transactions",
     "Failed to delete transactions", "Failed to delete transaction", "Update failed",
     "Failed to save expense"}

\* C19 (as claimed): a failing ledger call is reported to the user in every
\* operation.  Then every command is answered, and /recent on a ledger that
\* holds a row answers with the list or, when its call fails, with an error.
C19_FailuresReported ==
    [][ /\ (last'.kind \notin {"text", "none"} /\ Len(sheet) > 1) => last'.reply # ""
        /\ (last'.kind = "recent" /\ Len(sheet) > 1) =>
              (last'.reply = "Recent Transactions" \/ last'.reply \in FailureReplies)
      ]_vars

\* C20: an edit is not atomic.  When the cell write after the amount write
\* fails, the row keeps the new amount with its old category and note, no
\* other row and no index entry changes, and the reply is the error.
C20_PartialEditReported ==
    [][ (FreshText /\ last'.reply = "Update failed" /\ last'.result = "Error") =>
            /\ transactions' = transactions
            /\ \E k \in MatchingRows(sheet, transactions[last'.reply_to]) :
                  /\ sheet'[k].amount = extract_amount(last'.text)
                  /\ sheet'[k].amount # sheet[k].amount
                  /\ sheet' = [sheet EXCEPT ![k].amount = extract_amount(last'.text)]
      ]_vars

\* the reply 'uber 300' to 'lunch 250' failed after the amount write: the
\* row holds 300 with the category and the note it had
C20_Witness ==
    /\ last.kind = "text" /\ last.text = TEXT_UBER_300
    /\ last.reply = "Update failed" /\ last.result = "Error"
    /\ \E k \in 2..Len(sheet) :
          /\ sheet[k].amount = [whole |-> 300, frac |-> <<>>]
          /\ sheet[k].category = "Food"
          /\ sheet[k].message = TEXT_LUNCH_250

\* C21: whatever the bot inserts and edits, every data row of the ledger
\* has one of the seven categories or 'Other', and an amount that is a
\* number and not negative.
C21_RecordInvariants ==
    \A k \in 2..Len(sheet) :
        /\ sheet[k].category \in {"Food", "Transport", "Groceries", "Shopping",
                                  "Entertainment", "Bills", "Health", "Other"}
        /\ sheet[k].amount.whole >= 0

\* the reply '-50 taxi' has edited 'lunch 250': the row holds 50, Transport
C21_Witness ==
    /\ last.kind = "text" /\ last.text = TEXT_MINUS_50_TAXI
    /\ last.reply = "Transaction updated"
    /\ \E k \in 2..Len(sheet) :
          /\ sheet[k].amount = [whole |-> 50, frac |-> <<>>]
          /\ sheet[k].category = "Transport"
          /\ sheet[k].message = <<"l", "u", "n", "c", "h", " ", "5", "0">>

\* the amount C22 describes: the rupee, dollar, euro and pound signs and
\* the comma are taken out, and the first numeric token that is left counts
ClaimedAmount(text) ==
    LET cleaned == SelectSeq(text, LAMBDA c : c \notin {"u20b9", "$", "u20ac", "u00a3", ","})
        numbers == re_findall_numbers(cleaned)
    IN  IF numbers = <<>> THEN NoAmount ELSE float_of(numbers[1])

\* C22 (as claimed): extract_amount gives the value of the first numeric
\* token left once currency symbols and thousands separators are stripped,
\* whatever numbers follow, and None exactly when the text has no digit.
C22_FirstNumericToken ==
    last.kind = "classified" =>
        /\ transactions[1].amount = ClaimedAmount(last.text)
        /\ transactions[1].amount = NoAmount <=>
              (\A i \in 1..Len(last.text) : ~IsDigit(last.text[i]))

\* the category C23 describes: the first of the seven, in table order, one
\* of whose keywords is in the lower-cased text
ClaimedCategory(text) ==
    LET lower  == str_lower(text)
        Has(k) == \E j \in 1..Len(CATEGORY_KEYWORDS[k].keywords) :
                      str_contains(lower, CATEGORY_KEYWORDS[k].keywords[j])
    IN  IF Has(1) THEN "Food"
        ELSE IF Has(2) THEN "Transport"
        ELSE IF Has(3) THEN "Groceries"
        ELSE IF Has(4) THEN "Shopping"
        ELSE IF Has(5) THEN "Entertainment"
        ELSE IF Has(6) THEN "Bills"
        ELSE IF Has(7) THEN "Health"
        ELSE "Other"

\* C23: detect_category gives the first category, in the order Food,
\* Transport, Groceries, Shopping, Entertainment, Bills, Health, that has a
\* keyword occurring in the text in any case, and 'Other' when none has.
C23_FirstCategoryInTableOrder ==
    last.kind = "classified" =>
        transactions[1].category = ClaimedCategory(last.text)

\* 'UBERlunch' holds a Transport and a Food keyword and is classified Food
C23_Witness ==
    /\ last.kind = "classified"
    /\ last.text = <<"U", "B", "E", "R", "l", "u", "n", "c", "h">>
    /\ transactions[1].category = "Food"

\* C24 (as claimed): a tracked message keeps resolving to its record after
\* an edit.  A reply to the message whose record the reply before it has
\* just edited finds that record again.
C24_TrackedAfterEdit ==
    [][ ( /\ last.kind = "text" /\ last.reply = "Transaction updated"
          /\ FreshText
          /\ ~Pending(last'.user)
          /\ last'.reply_to = last.reply_to
          /\ last'.reply \in {"Transaction deleted", "Failed to delete transaction",
                              "Transaction updated", "Update failed"} ) =>
            last'.result # "Transaction not found"
      ]_vars

\* the other handle of the expense that has the handle r: user messages
\* have odd ids and the confirmation of a message has the id after it
OtherHandle(r) == IF r % 2 = 1 THEN r + 1 ELSE r - 1

\* C25 (as claimed): an expense is deleted at most once through its two
\* handles.  After a 'delete' reply to one handle has removed the row, a
\* 'delete' reply to the other handle removes no row.
C25_DeletedOnce ==
    [][ ( /\ last.kind = "text" /\ last.reply = "Transaction deleted"
          /\ FreshText
          /\ ~Pending(last'.user)
          /\ last'.text = TEXT_DELETE
          /\ last'.reply_to = OtherHandle(last.reply_to) ) =>
            sheet' = sheet
      ]_vars

\* C26 (as claimed): a confirmed bulk delete removes as many rows as
\* /deleteall counted, whatever happened in between.
C26_BulkDeleteRemovesCounted ==
    [][ (FreshText /\ Pending(last'.user) /\ last'.reply = "All transactions deleted") =>
            /\ Len(sheet) - Len(sheet') = user_data[last'.user].deleteall_count
            /\ last'.count = user_data[last'.user].deleteall_count
      ]_vars

\* the rows logged since the bot started
LoggedRows == {k \in 2..Len(sheet) : sheet[k].timestamp > 0}

\* C27 (as claimed): when only expenses were logged since the /recent
\* listing, /delete <n> removes the transaction the listing showed at
\* position n.  The listing was made from the T0 rows the ledger held then,
\* which are still rows 2..T0+1: position n was row max(0, T0 - 10) + n + 1.
C27_DeleteWhatWasListed ==
    [][ \A n \in 1..Len(POSITIONS) :
            LET T0 == Len(sheet) - 1 - Cardinality(LoggedRows)
            IN  ( /\ last'.kind = "delete" /\ last'.text = POSITIONS[n]
                  /\ last'.id = nextId
                  /\ nextId = 3 + 2 * Cardinality(LoggedRows)
                  /\ n <= T0 /\ n <= 10 ) =>
                    WithoutRow(sheet, sheet', Max(0, T0 - 10) + n + 1)
      ]_vars

C29_HeaderKept ==
    [][ /\ Len(sheet') >= 1
        /\ sheet'[1] = HEADER_ROW
        /\ Len(sheet') = Len(sheet) - 1 =>
              \E k \in 2..Len(sheet) : WithoutRow(sheet, sheet', k)
        /\ last'.reply = "All transactions deleted" => sheet' = <<HEADER_ROW>>
      ]_vars

\* /delete 1 has removed the only expense and the header is all that is left
C29_Witness ==
    /\ last.kind = "delete" /\ last.text = <<"1">> /\ last.reply = "Transaction deleted"
    /\ sheet = <<HEADER_ROW>>

\* C30 (as claimed): /balance always answers with the budget report, for
\* every budget and every total of the month.
C30_BalanceAlwaysAnswers ==
    [][ last'.kind = "balance" => last'.reply = "Monthly Budget Report" ]_vars

=============================================================================
